---------------------------- MODULE Spec2Model ----------------------------
(***************************************************************************)
(* The chunked-extraction pipeline of Legal-LLM/extraction-component.      *)
(*                                                                         *)
(* Three drivers share one shape: src/extract_script.py (text),            *)
(* src/test.py (structured) and src/test_v1.py (grouped).  Each walks the  *)
(* act folders, discovers the PDF chunks of an act, extracts every chunk   *)
(* that has no checkpoint file with at most MAX_RETRIES attempts, and then *)
(* assembles the checkpoints of the act into one final artifact.           *)
(*                                                                         *)
(* The state is the file system (chunk PDFs, checkpoint files, final       *)
(* artifacts) and the position of main() in its loops.  A run may be       *)
(* killed at any point and started again; the file system survives.        *)
(* In test.py and test_v1.py one extraction is three remote requests       *)
(* (upload, generate, delete), each of which may raise; in                 *)
(* extract_script.py it is one.                                            *)
(*                                                                         *)
(* Encoding of values.  A chunk file is named by its stem; every file of   *)
(* `files` is a PDF ("<stem>.pdf").  A chunk path is <<subfolder, stem>>.  *)
(* A character is a tuple: Newline, or <<"T", g, s>>, a                    *)
(* character of the text of chunk <<g, s>>.  A text is a sequence of       *)
(* characters.  A JSON file is the sequence of the JSON documents it       *)
(* holds: <<v>> when it is the encoding of v, <<>> when it has no bytes.   *)
(* A directory is a function from the names in it to the file contents.    *)
(***************************************************************************)
EXTENDS Naturals, Sequences, FiniteSets, TLC

(***************************************************************************)
(* Bounds of the model.                                                    *)
(***************************************************************************)
MaxFiles == 1    \* chunk PDFs in all, when an act other than the first has any
MaxChunks == 3   \* chunk PDFs of the first act, when it alone has any
MaxRuns == 2     \* runs of the script, one after the other
MaxLeaks == 1    \* uploaded files that a failing delete may leave behind

(***************************************************************************)
(* Program constants.                                                      *)
(***************************************************************************)
MAX_RETRIES == 3
RETRY_DELAY_SECONDS == 70
PROACTIVE_DELAY_TEXT == 65
PROACTIVE_DELAY_JSON == 5
SHORT_DELAY == 10

Pipelines == {"text", "structured", "grouped"}
Subfolders == <<"Initial Chunk", "Overlap Chunk">>
Groups == {Subfolders[k] : k \in 1..Len(Subfolders)}

\* The act folders found in TOP_LEVEL_FOLDER, in the order os.listdir gives.
main_act_folders == <<"ActX", "ActY">>
Docs == {main_act_folders[k] : k \in 1..Len(main_act_folders)}

\* The stems of the chunk file names, in their order as strings.
FileStems == <<"a", "b">>
Stems == {FileStems[k] : k \in 1..Len(FileStems)}
NameRank(s) == CHOOSE k \in 1..Len(FileStems) : FileStems[k] = s
Paths == Groups \X Stems

\* The order of the two subfolder names as strings: "I" sorts before "O".
GroupRank(g) == IF g = "Initial Chunk" THEN 1 ELSE 2

\* os.path.basename(path) and pathlib.Path(name).stem: the checkpoint key.
Stem(path) == path[2]

Unknown == <<"Unknown">>
\* What dict.get gives for a key that is missing or null.
None == <<"None">>
Newline == <<"\n">>
Separator == <<Newline, Newline>>

----------------------------------------------------------------------------
(***************************************************************************)
(* Pure helpers: listing, sorting, joining.                                *)
(***************************************************************************)

\* os.listdir: the entries of a directory, in arbitrary order.
listdir(S) ==
    {l \in [1..Cardinality(S) -> S] : \A x \in S : \E k \in DOMAIN l : l[k] = x}

\* The order of two file names (stems) as strings.
NameLess(a, b) == NameRank(a) < NameRank(b)

\* The order of two chunk paths as strings: subfolder first, then file name.
PathLess(p, q) ==
    \/ GroupRank(p[1]) < GroupRank(q[1])
    \/ p[1] = q[1] /\ NameLess(p[2], q[2])

RECURSIVE InsertName(_, _)
InsertName(x, seq) ==
    IF seq = <<>> THEN <<x>>
    ELSE IF NameLess(x, Head(seq)) THEN <<x>> \o seq
    ELSE <<Head(seq)>> \o InsertName(x, Tail(seq))

RECURSIVE SortNames(_)
SortNames(seq) ==
    IF seq = <<>> THEN <<>> ELSE InsertName(Head(seq), SortNames(Tail(seq)))

\* A listing used as the file system gave it.
sorted_names_Unsorted(seq) == seq

\* sorted() of a list of file names.
sorted_names(seq) == SortNames(seq)

RECURSIVE InsertPath(_, _)
InsertPath(x, seq) ==
    IF seq = <<>> THEN <<x>>
    ELSE IF PathLess(x, Head(seq)) THEN <<x>> \o seq
    ELSE <<Head(seq)>> \o InsertPath(x, Tail(seq))

RECURSIVE SortPaths(_)
SortPaths(seq) ==
    IF seq = <<>> THEN <<>> ELSE InsertPath(Head(seq), SortPaths(Tail(seq)))

\* A list of chunk paths used as it was built.
sorted_paths_Unsorted(seq) == seq

\* sorted() of a list of chunk paths.
sorted_paths(seq) == SortPaths(seq)

RECURSIVE Flatten(_)
Flatten(seqs) ==
    IF seqs = <<>> THEN <<>> ELSE Head(seqs) \o Flatten(Tail(seqs))

\* A join that forgets the separator.
Join_NoSeparator(sep, parts) == Flatten(parts)

\* sep.join(parts)
RECURSIVE Join(_, _)
Join(sep, parts) ==
    IF parts = <<>> THEN <<>>
    ELSE IF Len(parts) = 1 THEN Head(parts)
    ELSE Head(parts) \o sep \o Join(sep, Tail(parts))

----------------------------------------------------------------------------
(***************************************************************************)
(* What one extraction call can return.                                    *)
(***************************************************************************)

\* The text the service extracts from a chunk, when it extracts any.
TextOf(path) == << <<"T", path[1], path[2]>> >>

\* The metadata and the clause the service finds in a chunk, when it finds any.
NameOf(path) == <<"Act", path[1], path[2]>>
NumberOf(path) == <<"No", path[1], path[2]>>
ClauseOf(path) == [citation_path |-> <<path[1], path[2]>>, content |-> TextOf(path)]
SectionOf(path, title) ==
    [act_title |-> title, clause_number |-> <<path[1], path[2]>>, content |-> TextOf(path)]

\* extract_text_from_pdf returns response.text: a string, possibly empty,
\* or None when the response carries no text.
TextReturns(path) ==
    { [kind |-> "text", value |-> TextOf(path)],
      [kind |-> "text", value |-> <<>>],
      [kind |-> "none", value |-> <<>>] }

\* A decoded JSON document that is an array, not an object.
JsonArray == [array |-> <<>>]

\* extract_structure_from_chunk of test.py returns json.loads of the reply:
\* the object the prompt asks for, with or without metadata and clauses, an
\* object whose metadata are null, or valid JSON of another shape (no schema
\* is enforced on the reply).
StructuredReturns(path) ==
    { [kind |-> "json",
       value |-> [act_name |-> NameOf(path), act_number |-> NumberOf(path),
                  clauses |-> <<ClauseOf(path)>>]],
      [kind |-> "json",
       value |-> [act_name |-> Unknown, act_number |-> Unknown, clauses |-> <<>>]],
      [kind |-> "json",
       value |-> [act_name |-> None, act_number |-> None,
                  clauses |-> <<ClauseOf(path)>>]],
      [kind |-> "json", value |-> JsonArray] }

\* extract_structure_from_chunk of test_v1.py returns the decoded JSON array.
GroupedReturns(path) ==
    { [kind |-> "json",
       value |-> <<SectionOf(path, NameOf(path)), SectionOf(path, Unknown)>>],
      [kind |-> "json", value |-> <<>>] }

ExtractorReturns(p, path) ==
    IF p = "text" THEN TextReturns(path)
    ELSE IF p = "structured" THEN StructuredReturns(path)
    ELSE GroupedReturns(path)

\* The exceptions a call can raise: a rate-limit signal ("429",
\* "ResourceExhausted"), the 300 s timeout, anything else.
ExtractorErrors == {"rate_limit", "timeout", "generic"}

\* "429" in str(e) or "ResourceExhausted" in str(e)
IsRateLimit(e) == e = "rate_limit"

\* The sleep of the except branch.
RetryDelay(p, e) ==
    IF p = "text" THEN SHORT_DELAY
    ELSE IF IsRateLimit(e) THEN RETRY_DELAY_SECONDS
    ELSE SHORT_DELAY

\* A retry loop that goes round once more.
RetriesLeft_OneMore(a) == a + 1 <= MAX_RETRIES

\* for attempt in range(MAX_RETRIES): after attempt a, is there another?
RetriesLeft(a) == a + 1 < MAX_RETRIES

\* PROACTIVE_DELAY_SECONDS of each script.
ProactiveDelay(p) == IF p = "text" THEN PROACTIVE_DELAY_TEXT ELSE PROACTIVE_DELAY_JSON

(***************************************************************************)
(* Checkpoint files.                                                       *)
(***************************************************************************)

\* The content open(path, "w") leaves before anything is written.
EmptyContent == <<>>

\* f.write(clean_text) and json.dump(data, f): the content of the closed file.
Encode(p, res) == IF p = "text" THEN res.value ELSE <<res.value>>

\* json.load raises JSONDecodeError unless the file holds one JSON document.
DecodeFails(content) == Len(content) # 1
Decode(content) == content[1]

\* A driver that never finds a checkpoint.
CheckpointExists_Never(dir, key) == FALSE

\* os.path.exists(temp_txt_path) / os.path.exists(temp_json_path)
CheckpointExists(dir, key) == key \in DOMAIN dir

\* os.path.exists(final_act_json_path); extract_script.py makes no such test.
FinalExists(p, fin, d) == p # "text" /\ d \in DOMAIN fin

(***************************************************************************)
(* Discovery of the chunks of one act.  ls[g] is what os.listdir returns   *)
(* for subfolder g.                                                        *)
(***************************************************************************)

PathsOf(g, names) == [k \in 1..Len(names) |-> <<g, names[k]>>]

\* extract_script.py: per subfolder, the sorted file names.
DiscoverText(ls) ==
    Flatten([k \in 1..Len(Subfolders) |->
                PathsOf(Subfolders[k], sorted_names(ls[Subfolders[k]]))])

\* test.py, test_v1.py: the sorted list of all paths.
DiscoverJson(ls) ==
    sorted_paths(Flatten([k \in 1..Len(Subfolders) |->
                            PathsOf(Subfolders[k], ls[Subfolders[k]])]))

Discover(p, ls) == IF p = "text" THEN DiscoverText(ls) ELSE DiscoverJson(ls)

(***************************************************************************)
(* Assembly.  Each operator returns <<>> when no file is written and       *)
(* <<content>> when the final artifact is written with that content.       *)
(***************************************************************************)

RECURSIVE TextParts(_, _)
TextParts(chunks, dir) ==
    IF chunks = <<>> THEN <<>>
    ELSE (IF CheckpointExists(dir, Stem(Head(chunks)))
          THEN <<dir[Stem(Head(chunks))]>> ELSE <<>>)
         \o TextParts(Tail(chunks), dir)

\* A combination step that writes whatever it has, even nothing.
AssembleText_AlwaysWrites(chunks, dir) == <<Join(Separator, TextParts(chunks, dir))>>

AssembleText(chunks, dir) ==
    LET final_text_parts == TextParts(chunks, dir)
    IN  IF final_text_parts # <<>> THEN <<Join(Separator, final_text_parts)>> ELSE <<>>

\* temp_data.get(...) works on a JSON object; on anything else it raises
\* AttributeError, which the except clause of the loop does not catch.
HasGet(temp_data) == DOMAIN temp_data = {"act_name", "act_number", "clauses"}

\* The loop over temp_json_files; raised tells that it ended in an exception.
RECURSIVE MergeStructured(_, _, _)
MergeStructured(temp_json_files, dir, acc) ==
    IF temp_json_files = <<>> THEN acc
    ELSE LET content == dir[Head(temp_json_files)]
             rest == Tail(temp_json_files)
         IN  IF DecodeFails(content) THEN MergeStructured(rest, dir, acc)
             ELSE LET temp_data == Decode(content)
                  IN  IF ~HasGet(temp_data) THEN [acc EXCEPT !.raised = TRUE]
                      ELSE MergeStructured(rest, dir,
                        [raised |-> FALSE,
                         clauses |-> acc.clauses \o temp_data.clauses,
                         act_name |->
                            IF acc.act_name = Unknown /\ temp_data.act_name # Unknown
                            THEN temp_data.act_name ELSE acc.act_name,
                         act_number |->
                            IF acc.act_number = Unknown /\ temp_data.act_number # Unknown
                            THEN temp_data.act_number ELSE acc.act_number])

StartOfMerge ==
    [raised |-> FALSE, clauses |-> <<>>, act_name |-> Unknown, act_number |-> Unknown]

AssembleStructured(temp_json_files, dir) ==
    LET merged == MergeStructured(temp_json_files, dir, StartOfMerge)
    IN  IF ~merged.raised /\ merged.clauses # <<>>
        THEN << <<[act_name |-> merged.act_name, act_number |-> merged.act_number,
                   clauses |-> merged.clauses]>> >>
        ELSE <<>>

RECURSIVE MergeGrouped(_, _)
MergeGrouped(temp_json_files, dir) ==
    IF temp_json_files = <<>> THEN <<>>
    ELSE LET content == dir[Head(temp_json_files)]
         IN  (IF DecodeFails(content) THEN <<>> ELSE Decode(content))
             \o MergeGrouped(Tail(temp_json_files), dir)

AssembleGrouped(temp_json_files, dir) ==
    LET master_clause_list == MergeGrouped(temp_json_files, dir)
    IN  IF master_clause_list # <<>> THEN << <<master_clause_list>> >> ELSE <<>>

\* The combination step of main(): chunks is chunks_to_process, tl is what
\* os.listdir returns for the act's checkpoint folder.
Assemble(p, chunks, tl, dir) ==
    IF p = "text" THEN AssembleText(chunks, dir)
    ELSE IF p = "structured" THEN AssembleStructured(sorted_names(tl), dir)
    ELSE AssembleGrouped(sorted_names(tl), dir)

\* The combination step ends in an exception that main() does not catch.
AssembleRaises(p, tl, dir) ==
    p = "structured" /\ MergeStructured(sorted_names(tl), dir, StartOfMerge).raised

----------------------------------------------------------------------------
(***************************************************************************)
(* State.                                                                  *)
(***************************************************************************)
VARIABLES
    pipeline,           \* which of the three scripts runs
    files,              \* files[d]: the chunk PDFs <<group, stem>> of act d
    ckpt,               \* ckpt[d]: the checkpoint folder of act d, key -> content
    final,              \* the final output folder, act -> content
    pc,                 \* the position of main()
    act,                \* index of act_name in main_act_folders
    chunks_to_process,  \* the chunk list of the current act
    i,                  \* index of chunk_path in chunks_to_process
    attempt,            \* the loop variable of the retry loop
    result,             \* what the extraction call returned, until it is saved
    delay,              \* the duration of the sleep in progress, else 0
    exc,                \* the exception raised in the attempt in progress, else "none"
    uploads,            \* how many files this run has uploaded and not deleted
    run,                \* history: the number of this run
    outcome,            \* history: what this run did with each chunk
    extractFailures,    \* history: calls for the current chunk that raised
    firstTry,           \* history: so far every chunk of this act succeeded at once
    extracted,          \* history: chunk -> the result of its last completed extraction
    doneBefore,         \* history: the chunks completed before this run started
    assembledFrom,      \* history: act -> the checkpoint folder its artifact was built from
    pauses,             \* history: the proactive pauses this run has taken
    written             \* history: the checkpoint files this run has created

progVars == <<pc, act, chunks_to_process, i, attempt, result, delay, exc, uploads>>
diskVars == <<pipeline, files, ckpt, final>>
histVars == <<run, outcome, extractFailures, firstTry, extracted, doneBefore,
             assembledFrom, pauses, written>>
vars == <<pipeline, files, ckpt, final, uploads, pc, act, chunks_to_process, i,
          attempt, result, delay, exc, run, outcome, extractFailures, firstTry,
          extracted, doneBefore, assembledFrom, pauses, written>>

NoResult == [kind |-> "nothing", value |-> <<>>]

RECURSIVE TotalFiles(_, _)
TotalFiles(f, k) ==
    IF k = 0 THEN 0 ELSE Cardinality(f[main_act_folders[k]]) + TotalFiles(f, k - 1)

\* The chunk files the model starts from.
Layouts ==
    {f \in [Docs -> SUBSET Paths] :
        \/ TotalFiles(f, Len(main_act_folders)) <= MaxFiles
        \/ /\ Cardinality(f[main_act_folders[1]]) <= MaxChunks
           /\ \A k \in 2..Len(main_act_folders) : f[main_act_folders[k]] = {}}

ChunkIds(f) == {id \in Docs \X Paths : id[2] \in f[id[1]]}

\* The names in subfolder g of act d.
NamesIn(d, g) == {q[2] : q \in {r \in files[d] : r[1] = g}}

\* The chunk the chunk loop is at, and its checkpoint key.
act_name == main_act_folders[act]
chunk_path == chunks_to_process[i]
ChunkId == <<act_name, chunk_path>>
Key == Stem(chunk_path)

\* The locals of main() at the start of a run.
FreshRun ==
    /\ pc' = "start"
    /\ act' = 1
    /\ chunks_to_process' = <<>>
    /\ i' = 1
    /\ attempt' = 0
    /\ result' = NoResult
    /\ delay' = 0
    /\ exc' = "none"
    /\ uploads' = 0

FreshHistory ==
    /\ run' = run + 1
    /\ outcome' = [id \in ChunkIds(files) |-> "unvisited"]
    /\ extractFailures' = 0
    /\ firstTry' = TRUE
    /\ doneBefore' = DOMAIN extracted
    /\ pauses' = 0
    /\ written' = {}
    /\ UNCHANGED <<extracted, assembledFrom>>

Init ==
    /\ pipeline \in Pipelines
    /\ files \in Layouts
    /\ ckpt = [d \in Docs |-> <<>>]
    /\ final = <<>>
    /\ pc = "start"
    /\ act = 1
    /\ chunks_to_process = <<>>
    /\ i = 1
    /\ attempt = 0
    /\ result = NoResult
    /\ delay = 0
    /\ exc = "none"
    /\ uploads = 0
    /\ run = 1
    /\ outcome = [id \in ChunkIds(files) |-> "unvisited"]
    /\ extractFailures = 0
    /\ firstTry = TRUE
    /\ extracted = <<>>
    /\ doneBefore = {}
    /\ assembledFrom = <<>>
    /\ pauses = 0
    /\ written = {}

----------------------------------------------------------------------------
(***************************************************************************)
(* main(): the loop over the acts.                                         *)
(***************************************************************************)

\* The act loop is exhausted: "All legal acts have been processed."
AllActsProcessed ==
    /\ pc = "start"
    /\ act > Len(main_act_folders)
    /\ pc' = "exit"
    /\ UNCHANGED <<act, chunks_to_process, i, attempt, result, delay, exc, uploads>>
    /\ UNCHANGED diskVars
    /\ UNCHANGED histVars

\* "Final file already exists. Skipping entire act."
SkipAct ==
    /\ pc = "start"
    /\ act <= Len(main_act_folders)
    /\ FinalExists(pipeline, final, act_name)
    /\ act' = act + 1
    /\ UNCHANGED <<pc, chunks_to_process, i, attempt, result, delay, exc, uploads>>
    /\ UNCHANGED diskVars
    /\ UNCHANGED histVars

\* Discovery; "No PDF chunks found" continues with the next act.
DiscoverChunks ==
    /\ pc = "start"
    /\ act <= Len(main_act_folders)
    /\ ~FinalExists(pipeline, final, act_name)
    /\ \E ls \in [Groups -> UNION {listdir(NamesIn(act_name, g)) : g \in Groups}] :
          /\ \A g \in Groups : ls[g] \in listdir(NamesIn(act_name, g))
          /\ LET found == Discover(pipeline, ls)
             IN  IF found = <<>>
                 THEN /\ act' = act + 1
                      /\ UNCHANGED <<pc, chunks_to_process, i>>
                 ELSE /\ chunks_to_process' = found
                      /\ i' = 1
                      /\ pc' = "chunk"
                      /\ UNCHANGED act
    /\ UNCHANGED <<attempt, result, delay, exc, uploads>>
    /\ UNCHANGED diskVars
    /\ firstTry' = TRUE
    /\ UNCHANGED <<run, outcome, extractFailures, extracted, doneBefore, assembledFrom,
                   pauses, written>>

(***************************************************************************)
(* The loop over the chunks of one act.                                    *)
(***************************************************************************)

\* The chunk loop is exhausted: go on to the combination step.
ChunksDone ==
    /\ pc = "chunk"
    /\ i > Len(chunks_to_process)
    /\ pc' = "assemble"
    /\ UNCHANGED <<act, chunks_to_process, i, attempt, result, delay, exc, uploads>>
    /\ UNCHANGED diskVars
    /\ UNCHANGED histVars

\* THE CHECKPOINT LOGIC: "Skipping ... Already processed."
SkipChunk ==
    /\ pc = "chunk"
    /\ i <= Len(chunks_to_process)
    /\ CheckpointExists(ckpt[act_name], Key)
    /\ i' = i + 1
    /\ outcome' = [outcome EXCEPT ![ChunkId] = "skipped"]
    /\ UNCHANGED <<pc, act, chunks_to_process, attempt, result, delay, exc, uploads>>
    /\ UNCHANGED diskVars
    /\ firstTry' = FALSE
    /\ UNCHANGED <<run, extractFailures, extracted, doneBefore, assembledFrom,
                   pauses, written>>

\* No checkpoint: enter the retry loop.
BeginAttempts ==
    /\ pc = "chunk"
    /\ i <= Len(chunks_to_process)
    /\ ~CheckpointExists(ckpt[act_name], Key)
    /\ pc' = "extract"
    /\ attempt' = 0
    /\ extractFailures' = 0
    /\ UNCHANGED <<act, chunks_to_process, i, result, delay, exc, uploads>>
    /\ UNCHANGED diskVars
    /\ UNCHANGED <<run, outcome, firstTry, extracted, doneBefore, assembledFrom,
                   pauses, written>>

\* The extraction function raised e: the except branch of main() sleeps.
Except(e) ==
    /\ exc' = e
    /\ delay' = RetryDelay(pipeline, e)
    /\ pc' = "retry_sleep"
    /\ result' = NoResult
    /\ extractFailures' = extractFailures + 1
    /\ firstTry' = FALSE
    /\ UNCHANGED <<act, chunks_to_process, i, attempt>>
    /\ UNCHANGED <<pipeline, files, ckpt, final>>
    /\ UNCHANGED <<run, outcome, extracted, doneBefore, assembledFrom, pauses, written>>

\* extract_text_from_pdf returns response.text.
ExtractReturns ==
    /\ pc = "extract"
    /\ pipeline = "text"
    /\ \E r \in ExtractorReturns(pipeline, chunk_path) : result' = r
    /\ pc' = "save"
    /\ UNCHANGED <<act, chunks_to_process, i, attempt, delay, exc, uploads>>
    /\ UNCHANGED diskVars
    /\ UNCHANGED histVars

\* The first remote call of the extraction function raises: generate_content
\* in extract_script.py, genai.upload_file in test.py and test_v1.py, where
\* the finally clause finds uploaded_file None and deletes nothing.
ExtractRaises ==
    /\ pc = "extract"
    /\ \E e \in ExtractorErrors : Except(e)
    /\ UNCHANGED uploads

\* genai.upload_file returns the handle of the file now on the service.
Upload ==
    /\ pc = "extract"
    /\ pipeline # "text"
    /\ uploads' = uploads + 1
    /\ pc' = "generate"
    /\ UNCHANGED <<act, chunks_to_process, i, attempt, result, delay, exc>>
    /\ UNCHANGED <<pipeline, files, ckpt, final>>
    /\ UNCHANGED histVars

\* generate_content returns and json.loads decodes the reply; the finally
\* clause runs before the value is returned.
GenerateReturns ==
    /\ pc = "generate"
    /\ \E r \in ExtractorReturns(pipeline, chunk_path) : result' = r
    /\ pc' = "delete"
    /\ UNCHANGED <<act, chunks_to_process, i, attempt, delay, exc, uploads>>
    /\ UNCHANGED diskVars
    /\ UNCHANGED histVars

\* generate_content or json.loads raises; the finally clause runs before the
\* exception goes on to main().
GenerateRaises ==
    /\ pc = "generate"
    /\ \E e \in ExtractorErrors : exc' = e
    /\ pc' = "delete"
    /\ UNCHANGED <<act, chunks_to_process, i, attempt, result, delay, uploads>>
    /\ UNCHANGED diskVars
    /\ UNCHANGED histVars

\* finally: genai.delete_file(uploaded_file.name) succeeds; the function then
\* returns its value or lets the pending exception go on.
DeleteFile ==
    /\ pc = "delete"
    /\ uploads' = uploads - 1
    /\ IF exc = "none"
       THEN /\ pc' = "save"
            /\ UNCHANGED <<act, chunks_to_process, i, attempt, result, delay, exc>>
            /\ UNCHANGED <<pipeline, files, ckpt, final>>
            /\ UNCHANGED histVars
       ELSE Except(exc)

\* finally: genai.delete_file itself raises.  Its exception replaces the
\* return value or the pending exception, and the file stays on the service.
DeleteRaises ==
    /\ pc = "delete"
    /\ uploads <= MaxLeaks
    /\ \E e \in ExtractorErrors : Except(e)
    /\ UNCHANGED uploads

\* open(temp_path, "w") and the write both succeed; the proactive pause begins.
SaveCheckpoint ==
    /\ pc = "save"
    /\ result.kind # "none"
    /\ ckpt' = [ckpt EXCEPT ![act_name] = (Key :> Encode(pipeline, result)) @@ ckpt[act_name]]
    /\ pc' = "proactive_sleep"
    /\ delay' = ProactiveDelay(pipeline)
    /\ result' = NoResult
    /\ outcome' = [outcome EXCEPT ![ChunkId] = "succeeded"]
    /\ extracted' = (ChunkId :> result) @@ extracted
    /\ written' = written \cup {<<act_name, Key>>}
    /\ UNCHANGED <<act, chunks_to_process, i, attempt, exc, uploads>>
    /\ UNCHANGED <<pipeline, files, final>>
    /\ UNCHANGED <<run, extractFailures, firstTry, doneBefore, assembledFrom, pauses>>

\* open(temp_path, "w") creates or truncates the file, then f.write(None)
\* raises a TypeError.  The file stays, empty; the except branch sleeps.
SaveRaises ==
    /\ pc = "save"
    /\ result.kind = "none"
    /\ ckpt' = [ckpt EXCEPT ![act_name] = (Key :> EmptyContent) @@ ckpt[act_name]]
    /\ pc' = "retry_sleep"
    /\ exc' = "generic"
    /\ delay' = RetryDelay(pipeline, "generic")
    /\ result' = NoResult
    /\ written' = written \cup {<<act_name, Key>>}
    /\ UNCHANGED <<act, chunks_to_process, i, attempt, uploads>>
    /\ UNCHANGED <<pipeline, files, final>>
    /\ firstTry' = FALSE
    /\ UNCHANGED <<run, outcome, extractFailures, extracted, doneBefore, assembledFrom,
                   pauses>>

\* time.sleep(PROACTIVE_DELAY_SECONDS); break
ProactivePause ==
    /\ pc = "proactive_sleep"
    /\ pc' = "chunk"
    /\ i' = i + 1
    /\ delay' = 0
    /\ pauses' = pauses + 1
    /\ UNCHANGED <<act, chunks_to_process, attempt, result, exc, uploads>>
    /\ UNCHANGED diskVars
    /\ UNCHANGED <<run, outcome, extractFailures, firstTry, extracted, doneBefore,
                   assembledFrom, written>>

\* The cooldown ends and the retry loop goes round again.
RetryAfterSleep ==
    /\ pc = "retry_sleep"
    /\ RetriesLeft(attempt)
    /\ attempt' = attempt + 1
    /\ pc' = "extract"
    /\ delay' = 0
    /\ exc' = "none"
    /\ UNCHANGED <<act, chunks_to_process, i, result, uploads>>
    /\ UNCHANGED diskVars
    /\ UNCHANGED histVars

\* The cooldown ends and the retry loop is exhausted: the else branch.
AttemptsExhausted ==
    /\ pc = "retry_sleep"
    /\ ~RetriesLeft(attempt)
    /\ pc' = "failed"
    /\ delay' = 0
    /\ exc' = "none"
    /\ UNCHANGED <<act, chunks_to_process, i, attempt, result, uploads>>
    /\ UNCHANGED diskVars
    /\ UNCHANGED histVars

\* "FAILED to process chunk ... after MAX_RETRIES attempts."; next chunk.
ReportFailed ==
    /\ pc = "failed"
    /\ pc' = "chunk"
    /\ i' = i + 1
    /\ outcome' = [outcome EXCEPT ![ChunkId] = "failed"]
    /\ UNCHANGED <<act, chunks_to_process, attempt, result, delay, exc, uploads>>
    /\ UNCHANGED diskVars
    /\ UNCHANGED <<run, extractFailures, firstTry, extracted, doneBefore, assembledFrom,
                   pauses, written>>

(***************************************************************************)
(* The combination step, then the next act.                                *)
(***************************************************************************)
Combine ==
    /\ pc = "assemble"
    /\ \E tl \in listdir(DOMAIN ckpt[act_name]) :
          /\ ~AssembleRaises(pipeline, tl, ckpt[act_name])
          /\ LET artifact == Assemble(pipeline, chunks_to_process, tl, ckpt[act_name])
             IN  IF artifact = <<>>
                 THEN UNCHANGED <<final, assembledFrom>>
                 ELSE /\ final' = (act_name :> artifact[1]) @@ final
                      /\ assembledFrom' = (act_name :> ckpt[act_name]) @@ assembledFrom
    /\ pc' = "start"
    /\ act' = act + 1
    /\ UNCHANGED <<chunks_to_process, i, attempt, result, delay, exc, uploads>>
    /\ UNCHANGED <<pipeline, files, ckpt>>
    /\ UNCHANGED <<run, outcome, extractFailures, firstTry, extracted, doneBefore,
                   pauses, written>>

\* The combination step raises: main() ends with a traceback, the acts
\* that follow are not visited and nothing is written.
CombineRaises ==
    /\ pc = "assemble"
    /\ \E tl \in listdir(DOMAIN ckpt[act_name]) :
          AssembleRaises(pipeline, tl, ckpt[act_name])
    /\ pc' = "crashed"
    /\ UNCHANGED <<act, chunks_to_process, i, attempt, result, delay, exc, uploads>>
    /\ UNCHANGED diskVars
    /\ UNCHANGED histVars

(***************************************************************************)
(* The environment: the process is killed and started again, or a          *)
(* finished run is followed by another.                                    *)
(***************************************************************************)

\* Killed while saving a checkpoint: before open(), or between open() and
\* the flush of the buffered write, which leaves the file empty.
KilledWhileSaving ==
    /\ pc = "save"
    /\ run < MaxRuns
    /\ \/ UNCHANGED ckpt
       \/ ckpt' = [ckpt EXCEPT ![act_name] = (Key :> EmptyContent) @@ ckpt[act_name]]
    /\ FreshRun
    /\ FreshHistory
    /\ UNCHANGED <<pipeline, files, final>>

\* Killed anywhere else: the files are as the last completed step left them.
Killed ==
    /\ pc \notin {"save", "exit", "crashed"}
    /\ run < MaxRuns
    /\ FreshRun
    /\ FreshHistory
    /\ UNCHANGED diskVars

\* The script is run again after it ended.
RunAgain ==
    /\ pc \in {"exit", "crashed"}
    /\ run < MaxRuns
    /\ FreshRun
    /\ FreshHistory
    /\ UNCHANGED diskVars

Next ==
    \/ AllActsProcessed
    \/ SkipAct
    \/ DiscoverChunks
    \/ ChunksDone
    \/ SkipChunk
    \/ BeginAttempts
    \/ ExtractReturns
    \/ ExtractRaises
    \/ Upload
    \/ GenerateReturns
    \/ GenerateRaises
    \/ DeleteFile
    \/ DeleteRaises
    \/ SaveCheckpoint
    \/ SaveRaises
    \/ ProactivePause
    \/ RetryAfterSleep
    \/ AttemptsExhausted
    \/ ReportFailed
    \/ Combine
    \/ CombineRaises
    \/ KilledWhileSaving
    \/ Killed
    \/ RunAgain

Spec == Init /\ [][Next]_vars

----------------------------------------------------------------------------
(***************************************************************************)
(* The claims.                                                             *)
(***************************************************************************)

\* A step of the running script, as opposed to a kill or a new run.
SameRun == run' = run

\* The chunk loop stands at a chunk (not past the last one).
AtChunk == pc = "chunk" /\ i <= Len(chunks_to_process)

\* C1: in every pipeline, a chunk that is visited while a checkpoint file for
\* its key exists gets no remote call, no checkpoint write and no pause: the
\* driver's next step leaves the files alone and stands at the next chunk.
C1_SkipDoesNothing ==
    [][ (AtChunk /\ Key \in DOMAIN ckpt[act_name] /\ SameRun)
        => /\ pc' = "chunk"
           /\ i' = i + 1
           /\ act' = act
           /\ chunks_to_process' = chunks_to_process
           /\ ckpt' = ckpt
           /\ final' = final
           /\ delay' = 0
           /\ extracted' = extracted ]_vars

\* A chunk was skipped in this run, and its checkpoint is there.
C1_Witness ==
    \E id \in DOMAIN outcome :
        outcome[id] = "skipped" /\ Stem(id[2]) \in DOMAIN ckpt[id[1]]

\* C2: when the retry loop of a chunk ends in the FAILED report and every one
\* of its attempts raised in the extraction call, exactly 3 calls were made,
\* the chunk has no checkpoint, and the driver's next step marks the chunk
\* failed, writes nothing and stands at the next chunk.
C2_ThreeCallsThenFailed ==
    [][ (pc = "failed" /\ extractFailures = attempt + 1 /\ SameRun)
        => /\ extractFailures = 3
           /\ Key \notin DOMAIN ckpt[act_name]
           /\ outcome'[ChunkId] = "failed"
           /\ ckpt' = ckpt
           /\ final' = final
           /\ pc' = "chunk"
           /\ i' = i + 1
           /\ act' = act ]_vars

\* A chunk failed for good after three raising calls and left no checkpoint;
\* the run went on.
C2_Witness ==
    /\ pc = "chunk"
    /\ i > 1
    /\ outcome[<<act_name, chunks_to_process[i - 1]>>] = "failed"
    /\ extractFailures = 3
    /\ Stem(chunks_to_process[i - 1]) \notin DOMAIN ckpt[act_name]

(***************************************************************************)
(* Reading an artifact back: which chunk each piece of it came from.       *)
(***************************************************************************)

\* The canonical order of the chunks of an act: the "Initial Chunk" files by
\* file name, then the "Overlap Chunk" files by file name.
CanonBefore(p, q) ==
    \/ p[1] = "Initial Chunk" /\ q[1] = "Overlap Chunk"
    \/ p[1] = q[1] /\ NameRank(p[2]) < NameRank(q[2])

RECURSIVE TextSources(_)
TextSources(text) ==
    IF text = <<>> THEN <<>>
    ELSE (IF Len(Head(text)) = 3 THEN << <<Head(text)[2], Head(text)[3]>> >> ELSE <<>>)
         \o TextSources(Tail(text))

\* The chunks the pieces of a final artifact were extracted from, in the
\* order the pieces have in the artifact.
SourcesOf(p, content) ==
    IF p = "text" THEN TextSources(content)
    ELSE IF p = "structured"
         THEN IF HasGet(content[1])
              THEN [k \in 1..Len(content[1].clauses) |-> content[1].clauses[k].citation_path]
              ELSE <<>>
    ELSE [k \in 1..Len(content[1]) |-> content[1][k].clause_number]

InCanonicalOrder(seq) ==
    \A j, k \in 1..Len(seq) : j < k => ~CanonBefore(seq[k], seq[j])

\* C3 (as claimed): in every pipeline the payloads of a final artifact stand
\* in the canonical chunk order.
C3_FinalInCanonicalOrder ==
    \A d \in DOMAIN final : InCanonicalOrder(SourcesOf(pipeline, final[d]))

\* The chunks of act d in canonical order.
CanonicalChunks(d) == CHOOSE seq \in listdir(files[d]) : InCanonicalOrder(seq)

\* The chunks of act d with a given outcome in this run.
ChunksWith(d, o) == {q \in files[d] : outcome[<<d, q>>] = o}

\* In this run exactly one chunk of act d failed for good and every other
\* chunk of the act was extracted.
OneFailedRestSucceeded(d) ==
    /\ Cardinality(ChunksWith(d, "failed")) = 1
    /\ ChunksWith(d, "succeeded") = files[d] \ ChunksWith(d, "failed")
    /\ ChunksWith(d, "succeeded") # {}

\* The sources of the payloads this run extracted for act d, chunk by chunk in
\* canonical order.
SucceededSources(d) ==
    LET seq == CanonicalChunks(d)
    IN  Flatten([k \in 1..Len(seq) |->
                    IF outcome[<<d, seq[k]>>] = "succeeded"
                    THEN SourcesOf(pipeline, Encode(pipeline, extracted[<<d, seq[k]>>]))
                    ELSE <<>>])

\* C4 (as claimed): when exactly one of the N chunks of an act fails for good
\* in a run and the other N-1 succeed, the combination step goes on to the
\* next act and the act's final artifact holds the payloads of the N-1
\* chunks in canonical order and nothing else.
C4_PartialArtifactInOrder ==
    [][ (pc = "assemble" /\ SameRun /\ OneFailedRestSucceeded(act_name))
        => /\ pc' = "start"
           /\ act' = act + 1
           /\ IF act_name \in DOMAIN final'
              THEN SourcesOf(pipeline, final'[act_name]) = SucceededSources(act_name)
              ELSE SucceededSources(act_name) = <<>> ]_vars

\* The act loop stands at an act (not past the last one).
AtAct == act <= Len(main_act_folders)

\* C5 (as claimed): in every pipeline, while a run works on an act whose final
\* artifact exists (it is written only by the combination step, so it existed
\* when the run reached the act), no step is a remote call and no step
\* changes the act's checkpoint folder.
C5_ExistingFinalMeansNoWork ==
    [][ (AtAct /\ act_name \in DOMAIN final /\ SameRun)
        => /\ pc # "extract"
           /\ ckpt'[act_name] = ckpt[act_name] ]_vars

\* The chunks this run made a remote call for.
Called == {id \in DOMAIN outcome : outcome[id] \in {"succeeded", "failed"}}

\* C6 (as claimed): a run that follows an earlier run calls the service for
\* exactly the chunks whose extraction had not been completed before it.
C6_RerunCallsExactlyTheRest ==
    (pc = "exit" /\ run > 1) => Called = DOMAIN outcome \ doneBefore

\* C7 (as claimed): when the process is killed while a success payload is
\* being saved, the checkpoint is afterwards absent or complete.
C7_KilledSaveIsAtomic ==
    [][ (pc = "save" /\ result.kind # "none" /\ run' = run + 1)
        => \/ Key \notin DOMAIN ckpt'[act_name]
           \/ ckpt'[act_name][Key] = Encode(pipeline, result) ]_vars

\* C8 (as claimed): after an attempt that ended in an exception, and when the
\* chunk is reported FAILED, the chunk has no checkpoint file.
C8_FailureLeavesNoCheckpoint ==
    pc \in {"retry_sleep", "failed"} => Key \notin DOMAIN ckpt[act_name]

\* C9: the artifact the combination step writes is the same for every order
\* in which the file system lists the checkpoints, and combining again a
\* checkpoint folder that is as it was when the act's artifact was written
\* leaves the artifact as it is.
C9_AssemblyIsRepeatable ==
    [][ (pc = "assemble" /\ SameRun)
        => /\ \A tl \in listdir(DOMAIN ckpt[act_name]) :
                 LET w == Assemble(pipeline, chunks_to_process, tl, ckpt[act_name])
                 IN  \/ w = <<>> /\ final' = final
                     \/ w # <<>> /\ act_name \in DOMAIN final' /\ final'[act_name] = w[1]
           /\ (/\ act_name \in DOMAIN final
               /\ assembledFrom[act_name] = ckpt[act_name])
              => final' = final ]_vars

\* A later run is about to combine again an act whose artifact was built
\* from the same checkpoints, two of them with text.
C9_Witness ==
    /\ pc = "assemble"
    /\ run > 1
    /\ act_name \in DOMAIN final
    /\ assembledFrom[act_name] = ckpt[act_name]
    /\ Len(SourcesOf(pipeline, final[act_name])) >= 2

\* C10: in the text pipeline, when every chunk of an act was extracted and
\* saved at its first attempt, the act has one checkpoint per chunk, each
\* holding the text extracted from that chunk, and the combination step
\* writes these texts in canonical order joined by "\n\n".
C10_TextAllFirstTry ==
    [][ (pipeline = "text" /\ pc = "assemble" /\ firstTry /\ SameRun)
        => LET seq == CanonicalChunks(act_name)
               texts == [k \in 1..Len(seq) |-> extracted[<<act_name, seq[k]>>].value]
           IN  /\ Cardinality(DOMAIN ckpt[act_name]) = Len(seq)
               /\ \A k \in 1..Len(seq) :
                     /\ Stem(seq[k]) \in DOMAIN ckpt[act_name]
                     /\ ckpt[act_name][Stem(seq[k])] = texts[k]
               /\ act_name \in DOMAIN final'
               /\ final'[act_name] =
                     Flatten([k \in 1..(2 * Len(seq) - 1) |->
                                IF k % 2 = 1 THEN texts[(k + 1) \div 2]
                                ELSE <<Newline, Newline>>]) ]_vars

\* The first act had two chunks, both extracted at the first attempt with
\* text, and its artifact is written.
C10_Witness ==
    /\ pipeline = "text"
    /\ pc = "start"
    /\ act = 2
    /\ firstTry
    /\ main_act_folders[1] \in DOMAIN final
    /\ Len(SourcesOf(pipeline, final[main_act_folders[1]])) = 2

\* C11: an act for which no chunk is discovered, and an act that has no
\* checkpoint file when its chunks have been processed, gets no final
\* artifact written, and the driver's next step stands at the next act.
C11_NothingToAssemble ==
    [][ (/\ SameRun
         /\ \/ pc = "start" /\ AtAct /\ files[act_name] = {}
            \/ pc = "assemble" /\ DOMAIN ckpt[act_name] = {})
        => /\ final' = final
           /\ pc' = "start"
           /\ act' = act + 1 ]_vars

\* The run is over: the first act had chunks that all failed and left no
\* checkpoint, the second act had no chunk, and no artifact was written.
C11_Witness ==
    /\ pc = "exit"
    /\ files[main_act_folders[1]] # {}
    /\ \A q \in files[main_act_folders[1]] : outcome[<<main_act_folders[1], q>>] = "failed"
    /\ DOMAIN ckpt[main_act_folders[1]] = {}
    /\ files[main_act_folders[2]] = {}
    /\ final = <<>>

\* The decoded checkpoints of act d that are JSON objects, chunk by chunk in
\* canonical order.
ChunkResults(d) ==
    LET seq == CanonicalChunks(d)
    IN  Flatten([k \in 1..Len(seq) |->
                    IF /\ Stem(seq[k]) \in DOMAIN ckpt[d]
                       /\ ~DecodeFails(ckpt[d][Stem(seq[k])])
                       /\ HasGet(Decode(ckpt[d][Stem(seq[k])]))
                    THEN <<Decode(ckpt[d][Stem(seq[k])])>>
                    ELSE <<>>])

\* The first value of a sequence that is a concrete one, else 'Unknown'.
RECURSIVE FirstConcrete(_)
FirstConcrete(vals) ==
    IF vals = <<>> THEN Unknown
    ELSE IF Head(vals) \notin {Unknown, None} THEN Head(vals)
    ELSE FirstConcrete(Tail(vals))

\* C12 (as claimed): in the structured pipeline, the act_name and the
\* act_number of a final artifact that the combination step writes are those
\* of the first chunk result, in chunk order, that has a concrete value, and
\* 'Unknown' when no chunk result has one.
C12_MetadataFromFirstConcrete ==
    [][ (pipeline = "structured" /\ pc = "assemble" /\ SameRun /\ final' # final)
        => LET res == ChunkResults(act_name)
           IN  /\ final'[act_name][1].act_name =
                     FirstConcrete([k \in 1..Len(res) |-> res[k].act_name])
               /\ final'[act_name][1].act_number =
                     FirstConcrete([k \in 1..Len(res) |-> res[k].act_number]) ]_vars

\* C13 (as claimed): whatever the extraction calls return or raise, no
\* exception leaves the loop over the acts: main() never ends in a traceback
\* with acts left unvisited.
C13_NoErrorEscapes == pc # "crashed"

\* C14 (as claimed): in every pipeline the cooldown after a failed attempt is
\* 70 seconds when the exception carries a rate-limit signal and 10 seconds
\* otherwise, and either kind of failure uses up one of the 3 attempts.
C14_CooldownByKind ==
    pc = "retry_sleep"
        => /\ delay = (IF IsRateLimit(exc) THEN 70 ELSE 10)
           /\ attempt < 3

\* C15 (as claimed): a proactive pause begins only in the step that writes a
\* checkpoint, every step of the run that writes a checkpoint file begins
\* one, the pause ends before anything else is done, and when the run ends it
\* has taken as many pauses as it has written checkpoints.
C15_OnePausePerCheckpoint ==
    [][ SameRun
        => /\ (pc' = "proactive_sleep" /\ pc # "proactive_sleep")
                => /\ pc = "save"
                   /\ Key \in DOMAIN ckpt'[act_name]
                   /\ <<act_name, Key>> \in written'
           /\ ckpt' # ckpt => pc' = "proactive_sleep"
           /\ pc = "proactive_sleep" => (pc' = "chunk" /\ pauses' = pauses + 1)
           /\ pauses' # pauses => pc = "proactive_sleep"
           /\ pc' = "exit" => pauses' = Cardinality(written') ]_vars

\* A checkpoint file that is not the encoding of a chunk result of the
\* pipeline's schema: an object for test.py, an array for test_v1.py.
Malformed(p, content) ==
    \/ DecodeFails(content)
    \/ p = "structured" /\ ~HasGet(Decode(content))

\* The sources of the well-formed checkpoints of act d, each checkpoint once,
\* at the place of its first chunk in canonical order.
WellFormedSources(d) ==
    LET seq == CanonicalChunks(d)
    IN  Flatten([k \in 1..Len(seq) |->
                    IF /\ Stem(seq[k]) \in DOMAIN ckpt[d]
                       /\ \A j \in 1..(k - 1) : Stem(seq[j]) # Stem(seq[k])
                       /\ ~Malformed(pipeline, ckpt[d][Stem(seq[k])])
                    THEN SourcesOf(pipeline, ckpt[d][Stem(seq[k])])
                    ELSE <<>>])

\* C16 (as claimed): in the structured and grouped pipelines, when an act has
\* a malformed checkpoint the combination step still completes and goes on to
\* the next act, and the artifact it writes holds the clauses of the other
\* checkpoints, in order, and nothing else.
C16_MalformedCheckpointDropped ==
    [][ (/\ pipeline # "text"
         /\ pc = "assemble"
         /\ SameRun
         /\ \E k \in DOMAIN ckpt[act_name] : Malformed(pipeline, ckpt[act_name][k]))
        => /\ pc' = "start"
           /\ act' = act + 1
           /\ IF final' # final
              THEN SourcesOf(pipeline, final'[act_name]) = WellFormedSources(act_name)
              ELSE WellFormedSources(act_name) = <<>> ]_vars

\* The arrays stored in the checkpoints of act d, each checkpoint once, at
\* the place of its first chunk in canonical order.
CheckpointArrays(d) ==
    LET seq == CanonicalChunks(d)
    IN  [k \in 1..Len(seq) |->
            IF /\ Stem(seq[k]) \in DOMAIN ckpt[d]
               /\ \A j \in 1..(k - 1) : Stem(seq[j]) # Stem(seq[k])
               /\ ~DecodeFails(ckpt[d][Stem(seq[k])])
            THEN Decode(ckpt[d][Stem(seq[k])])
            ELSE <<>>]

RECURSIVE SumOfLengths(_)
SumOfLengths(seqs) ==
    IF seqs = <<>> THEN 0 ELSE Len(Head(seqs)) + SumOfLengths(Tail(seqs))

\* C17 (as claimed): in the grouped pipeline the artifact the combination
\* step writes is the concatenation, in chunk order, of the arrays in the
\* act's checkpoints: as long as their lengths together, every element as it
\* is in its checkpoint.
C17_FlatConcatenation ==
    [][ (pipeline = "grouped" /\ pc = "assemble" /\ SameRun /\ final' # final)
        => /\ Len(final'[act_name][1]) = SumOfLengths(CheckpointArrays(act_name))
           /\ final'[act_name][1] = Flatten(CheckpointArrays(act_name)) ]_vars

\* C18 (as claimed): in the structured and grouped pipelines, outside an
\* extraction call (between attempts, while saving or pausing, while
\* assembling) no file that the run uploaded is left on the service.
C18_UploadsReleased ==
    (pipeline # "text" /\ pc \notin {"generate", "delete"}) => uploads = 0

\* A final artifact with nothing in it: a text file without a character, a
\* structured artifact without a clause, an empty array.
EmptyArtifact(p, content) ==
    IF p = "text" THEN content = <<>>
    ELSE IF p = "structured" THEN content[1].clauses = <<>>
    ELSE content[1] = <<>>

\* C19 (as claimed): no final artifact is empty.
C19_ArtifactNotEmpty ==
    \A d \in DOMAIN final : ~EmptyArtifact(pipeline, final[d])

\* Main() is inside the retry loop of chunk_path, or has just left it.
InRetryLoop ==
    pc \in {"extract", "generate", "delete", "save", "retry_sleep", "failed",
            "proactive_sleep"}

\* C20: while a chunk is being attempted, every chunk of the act that comes
\* before it in the canonical order has been dealt with (skipped, saved or
\* reported FAILED) and no chunk that comes after it has been touched; and the
\* combination step begins only when every chunk of the act has been dealt
\* with.
C20_CallsInCanonicalOrder ==
    /\ InRetryLoop
          => \A q \in files[act_name] :
                /\ CanonBefore(q, chunk_path) => outcome[<<act_name, q>>] # "unvisited"
                /\ CanonBefore(chunk_path, q) => outcome[<<act_name, q>>] = "unvisited"
    /\ pc = "assemble"
          => \A q \in files[act_name] : outcome[<<act_name, q>>] # "unvisited"

\* The second attempt of the last of three chunks is under way: of the two
\* chunks before it, one was reported FAILED and one was saved.
C20_Witness ==
    /\ pc = "extract"
    /\ attempt = 1
    /\ i = 3
    /\ Len(chunks_to_process) = 3
    /\ {outcome[<<act_name, chunks_to_process[k]>>] : k \in 1..2} = {"failed", "succeeded"}


\* C21 (as claimed): no step of the pipeline, in any run, removes a
\* checkpoint that exists or changes its content.
C21_ExistingCheckpointUnchanged ==
    [][\A d \in Docs : \A k \in DOMAIN ckpt[d] :
          /\ k \in DOMAIN ckpt'[d]
          /\ ckpt'[d][k] = ckpt[d][k]]_vars


\* How many times x stands in seq.
Occurrences(seq, x) == Cardinality({k \in 1..Len(seq) : seq[k] = x})

\* C22 (as claimed): every two distinct chunks of an act have checkpoints of
\* their own.  No chunk is skipped on the checkpoint that another chunk of
\* the act wrote in this run; when the combination step begins, no two
\* chunks of the act share a checkpoint; and the final artifact the step
\* writes holds the payload of every chunk extracted in this run exactly
\* once.
C22_OwnCheckpointPerChunk ==
    [][SameRun =>
        /\ (AtChunk /\ pc' = "chunk" /\ i' = i + 1)
              => \A q \in files[act_name] \ {chunk_path} :
                    ~(Stem(q) = Key /\ outcome[<<act_name, q>>] = "succeeded")
        /\ (pc = "assemble" /\ pc' = "start")
              => /\ \A q1, q2 \in files[act_name] :
                       (q1 # q2 /\ Stem(q1) \in DOMAIN ckpt[act_name])
                          => Stem(q1) # Stem(q2)
                 /\ act_name \in DOMAIN final'
                       => \A q \in ChunksWith(act_name, "succeeded") :
                             Occurrences(SourcesOf(pipeline, final'[act_name]), q)
                               = Len(SourcesOf(pipeline,
                                        Encode(pipeline, extracted[<<act_name, q>>])))]_vars

=============================================================================
